---- MODULE Spec2Model ----
(***************************************************************************)
(* Repository-context extraction of the code-readme-writer project: the    *)
(* file-tree listing, the key-file selection and the snippet budget loop   *)
(* of the dataset collector (scripts/prepare_data.py) and of the local and *)
(* remote scanners (scripts/inference.py), the README quality gate and the *)
(* structural scorer (scripts/evaluate.py).                                *)
(*                                                                         *)
(* A Python str is a sequence of one-character strings.  The content of a  *)
(* file is the record [src, len]: the first len characters of the text a   *)
(* fetch of path src returns.  A snippet block "--- {path} ---\n{content}" *)
(* is the record [path, content], and the joined code_snippets string is   *)
(* the sequence of its blocks.                                             *)
(***************************************************************************)
EXTENDS Integers, Sequences, FiniteSets, TLC

VARIABLES
    tree,         \* the entry sequence of the repository (API order)
    files,        \* path -> outcome of reading or fetching that path
    pc,           \* position of the running operation
    variant,      \* "dataset" | "github" | "local": the implementation running
    file_tree,    \* the file-tree listing string of the running scan
    key_files,    \* the selection of the running scan
    idx,          \* position in key_files the snippet loop is at
    total_chars,  \* running total of the snippet loop
    snippets,     \* blocks admitted by the snippet loop
    attempted,    \* paths read or fetched by the snippet loop, in order
    results,      \* variant -> outputs of its completed scans, oldest first
    tree_status,  \* status the tree request of the repository is answered with
    readme,       \* the normalized README handed to the quality gate
    shape,        \* how readme was laid out: its length, '#' count, word count
    accepted,     \* the verdict of the quality gate
    text,         \* the text handed to the structural scorer
    score,        \* the structural score of text
    scores,       \* the batch of structural scores handed to the aggregation
    aggregate,    \* the aggregate of scores
    num_repos,    \* collect_dataset: the number of repositories asked for
    catalog,      \* the ranked result list of a search, as repository kinds
    lang,         \* collect_dataset: position in languages
    page,         \* collect_dataset: page of the next search request
    collected,    \* collect_dataset: examples accepted for the language
    examples,     \* collect_dataset: the examples accepted so far
    repos,        \* collect_dataset: the items of the latest search response
    pos,          \* collect_dataset: position in repos
    request,      \* the latest search request and the status it was answered with
    retries,      \* consecutive searches answered with 403
    dataset_file, \* the lines of readme_dataset.jsonl on disk
    num_samples,  \* evaluate: the number of test examples asked for
    loaded,       \* evaluate: the examples parsed from the dataset file
    test_examples,\* evaluate: the examples that are scored
    struct_scores,\* evaluate: the structural scores of the generated texts
    summary_file, \* eval_<label>.json on disk
    details_file  \* eval_<label>_details.json on disk

scanVars == <<tree, files, variant, file_tree, key_files, idx,
              total_chars, snippets, attempted, results, tree_status>>

gateVars == <<readme, shape, accepted>>

scoreVars == <<text, score>>

aggVars == <<scores, aggregate>>

collectVars == <<num_repos, catalog, lang, page, collected, examples, repos,
                 pos, request, retries>>

evalVars == <<num_samples, loaded, test_examples, struct_scores>>

diskVars == <<dataset_file, summary_file, details_file>>

laterVars == <<aggVars, collectVars, evalVars, diskVars>>

earlyVars == <<scanVars, gateVars, scoreVars>>

\* what a scan leaves alone
otherVars == <<gateVars, scoreVars, laterVars>>

vars == <<pc, scanVars, gateVars, scoreVars, laterVars>>

-----------------------------------------------------------------------------
(* Characters and strings.                                                 *)

\* the characters a TLA+ string cannot hold: U+0060 and U+2022
Backtick == "bq"

Bullet == "bu"

\* ord(c)
Code ==
    ("\t" :> 9) @@ ("\n" :> 10) @@ (" " :> 32) @@ ("!" :> 33) @@ ("#" :> 35) @@ ("$" :> 36)
    @@ ("%" :> 37) @@ ("&" :> 38) @@ ("'" :> 39) @@ ("(" :> 40) @@ (")" :> 41) @@ ("*" :> 42)
    @@ ("+" :> 43) @@ ("," :> 44) @@ ("-" :> 45) @@ ("." :> 46) @@ ("/" :> 47) @@ ("0" :> 48)
    @@ ("1" :> 49) @@ ("2" :> 50) @@ ("3" :> 51) @@ ("4" :> 52) @@ ("5" :> 53) @@ ("6" :> 54)
    @@ ("7" :> 55) @@ ("8" :> 56) @@ ("9" :> 57) @@ (":" :> 58) @@ (";" :> 59) @@ ("<" :> 60)
    @@ ("=" :> 61) @@ (">" :> 62) @@ ("?" :> 63) @@ ("@" :> 64) @@ ("A" :> 65) @@ ("B" :> 66)
    @@ ("C" :> 67) @@ ("D" :> 68) @@ ("E" :> 69) @@ ("F" :> 70) @@ ("G" :> 71) @@ ("H" :> 72)
    @@ ("I" :> 73) @@ ("J" :> 74) @@ ("K" :> 75) @@ ("L" :> 76) @@ ("M" :> 77) @@ ("N" :> 78)
    @@ ("O" :> 79) @@ ("P" :> 80) @@ ("Q" :> 81) @@ ("R" :> 82) @@ ("S" :> 83) @@ ("T" :> 84)
    @@ ("U" :> 85) @@ ("V" :> 86) @@ ("W" :> 87) @@ ("X" :> 88) @@ ("Y" :> 89) @@ ("Z" :> 90)
    @@ ("[" :> 91) @@ ("]" :> 93) @@ ("^" :> 94) @@ ("_" :> 95) @@ ("a" :> 97) @@ ("b" :> 98)
    @@ ("c" :> 99) @@ ("d" :> 100) @@ ("e" :> 101) @@ ("f" :> 102) @@ ("g" :> 103) @@ ("h" :> 104)
    @@ ("i" :> 105) @@ ("j" :> 106) @@ ("k" :> 107) @@ ("l" :> 108) @@ ("m" :> 109) @@ ("n" :> 110)
    @@ ("o" :> 111) @@ ("p" :> 112) @@ ("q" :> 113) @@ ("r" :> 114) @@ ("s" :> 115) @@ ("t" :> 116)
    @@ ("u" :> 117) @@ ("v" :> 118) @@ ("w" :> 119) @@ ("x" :> 120) @@ ("y" :> 121) @@ ("z" :> 122)
    @@ ("{" :> 123) @@ ("|" :> 124) @@ ("}" :> 125) @@ ("~" :> 126) @@ (Backtick :> 96) @@ (Bullet :> 8226)

LowerTable ==
    ("A" :> "a") @@ ("B" :> "b") @@ ("C" :> "c") @@ ("D" :> "d") @@ ("E" :> "e") @@ ("F" :> "f") @@ ("G" :> "g")
    @@ ("H" :> "h") @@ ("I" :> "i") @@ ("J" :> "j") @@ ("K" :> "k") @@ ("L" :> "l") @@ ("M" :> "m") @@ ("N" :> "n")
    @@ ("O" :> "o") @@ ("P" :> "p") @@ ("Q" :> "q") @@ ("R" :> "r") @@ ("S" :> "s") @@ ("T" :> "t") @@ ("U" :> "u")
    @@ ("V" :> "v") @@ ("W" :> "w") @@ ("X" :> "x") @@ ("Y" :> "y") @@ ("Z" :> "z")

\* str.lower() on one character
LowerChar(c) == IF c \in DOMAIN LowerTable THEN LowerTable[c] ELSE c

\* str.lower()
lower(s) == [i \in 1..Len(s) |-> LowerChar(s[i])]

Min(S) == CHOOSE x \in S : \A y \in S : x <= y

Max(S) == CHOOSE x \in S : \A y \in S : x >= y

Range(s) == {s[i] : i \in 1..Len(s)}

\* a < b on str: by code point, a proper prefix first
StrLess(a, b) ==
    LET n == IF Len(a) < Len(b) THEN Len(a) ELSE Len(b)
        d == {i \in 1..n : a[i] # b[i]}
    IN  IF d = {} THEN Len(a) < Len(b)
        ELSE Code[a[Min(d)]] < Code[b[Min(d)]]

\* range(1, len(s) + 1)
Indices(s) == [i \in 1..Len(s) |-> i]

\* sorted(list of str), list.sort(): ascending and stable; element j goes to
\* the place after every element that is smaller, or equal and earlier
sorted(s) ==
    LET n == Len(s)
        place == SubSeq([j \in 1..n |->
                    1 + Cardinality({k \in 1..n :
                            \/ StrLess(s[k], s[j])
                            \/ (s[k] = s[j] /\ k < j)})], 1, n)
    IN  [i \in 1..n |-> s[CHOOSE j \in 1..n : place[j] = i]]

\* str.split(sep) for a one-character sep
split(s, sep) ==
    LET cut == SelectSeq(Indices(s), LAMBDA i : s[i] = sep)
        m == Len(cut)
    IN  [k \in 1..(m + 1) |->
            SubSeq(s,
                   (IF k = 1 THEN 0 ELSE cut[k - 1]) + 1,
                   (IF k = m + 1 THEN Len(s) + 1 ELSE cut[k]) - 1)]

RECURSIVE join(_, _)
\* sep.join(list of str), halving the list
join(sep, ss) ==
    IF ss = <<>> THEN <<>>
    ELSE IF Len(ss) = 1 THEN ss[1]
    ELSE LET h == Len(ss) \div 2
         IN  join(sep, SubSeq(ss, 1, h)) \o sep \o join(sep, SubSeq(ss, h + 1, Len(ss)))

\* sub in s
Contains(s, sub) ==
    \E i \in 1..(Len(s) - Len(sub) + 1) : SubSeq(s, i, i + Len(sub) - 1) = sub

\* s.startswith(prefix)
startswith(s, prefix) ==
    Len(s) >= Len(prefix) /\ SubSeq(s, 1, Len(prefix)) = prefix

\* s.count(c) for a one-character c
count(s, c) == Cardinality({i \in 1..Len(s) : s[i] = c})

\* s.rfind(c) + 1: the last position of c, 0 when absent
LastIndex(s, c) ==
    LET hits == {i \in 1..Len(s) : s[i] = c}
    IN  IF hits = {} THEN 0 ELSE Max(hits)

\* os.path.basename(p)
basename(p) == SubSeq(p, LastIndex(p, "/") + 1, Len(p))

\* os.path.splitext(p)[1]: from the last dot of the last segment, unless
\* that segment has only dots before it
splitext(p) ==
    LET sepIndex == LastIndex(p, "/")
        dotIndex == LastIndex(p, ".")
    IN  IF dotIndex > sepIndex
           /\ \E i \in (sepIndex + 1)..(dotIndex - 1) : p[i] # "."
        THEN SubSeq(p, dotIndex, Len(p))
        ELSE <<>>

\* x in list
InSeq(x, s) == \E i \in 1..Len(s) : s[i] = x

\* [item["path"] for item in items]
Paths(items) == [i \in 1..Len(items) |-> items[i].path]

-----------------------------------------------------------------------------
(* Program constants.                                                      *)

CODE_EXTENSIONS == {
    <<".","p","y">>,
    <<".","j","s">>,
    <<".","t","s">>,
    <<".","j","s","x">>,
    <<".","t","s","x">>,
    <<".","j","a","v","a">>,
    <<".","g","o">>,
    <<".","r","s">>,
    <<".","c","p","p">>,
    <<".","c">>,
    <<".","h">>,
    <<".","r","b">>,
    <<".","p","h","p">>,
    <<".","s","w","i","f","t">>,
    <<".","k","t">>,
    <<".","s","c","a","l","a">>,
    <<".","c","s">>,
    <<".","r">>,
    <<".","j","l">>,
    <<".","l","u","a">>,
    <<".","s","h">>,
    <<".","b","a","s","h">>,
    <<".","z","s","h">>
  }

IMPORTANT_FILES == {
    <<"s","e","t","u","p",".","p","y">>,
    <<"s","e","t","u","p",".","c","f","g">>,
    <<"p","y","p","r","o","j","e","c","t",".","t","o","m","l">>,
    <<"p","a","c","k","a","g","e",".","j","s","o","n">>,
    <<"c","a","r","g","o",".","t","o","m","l">>,
    <<"g","o",".","m","o","d">>,
    <<"b","u","i","l","d",".","g","r","a","d","l","e">>,
    <<"p","o","m",".","x","m","l">>,
    <<"m","a","k","e","f","i","l","e">>,
    <<"d","o","c","k","e","r","f","i","l","e">>,
    <<"d","o","c","k","e","r","-","c","o","m","p","o","s","e",".","y","m","l">>,
    <<"r","e","q","u","i","r","e","m","e","n","t","s",".","t","x","t">>,
    <<"g","e","m","f","i","l","e">>,
    <<".","e","n","v",".","e","x","a","m","p","l","e">>
  }

IGNORE_DIRS == {
    <<".","g","i","t">>,
    <<"n","o","d","e","_","m","o","d","u","l","e","s">>,
    <<"_","_","p","y","c","a","c","h","e","_","_">>,
    <<".","v","e","n","v">>,
    <<"v","e","n","v">>,
    <<".","e","g","g","s">>,
    <<"*",".","e","g","g","-","i","n","f","o">>,
    <<"d","i","s","t">>,
    <<"b","u","i","l","d">>,
    <<".","t","o","x">>,
    <<".","m","y","p","y","_","c","a","c","h","e">>,
    <<".","p","y","t","e","s","t","_","c","a","c","h","e">>,
    <<".","n","e","x","t">>,
    <<"t","a","r","g","e","t">>,
    <<"v","e","n","d","o","r">>
  }

MAX_FILE_CHARS == 1500

MAX_TOTAL_CODE_CHARS == 6000

\* max_entries of build_file_tree_string, the literal 80 of the scanners
max_entries == 80

\* deduped[:10], key_files[:10]
MAX_KEY_FILES == 10

TruncationMarker == <<".",".","."," ","(","t","r","u","n","c","a","t","e","d",")">>

-----------------------------------------------------------------------------
(* Repository snapshots the scans are run on.                              *)

TreeBasic ==
  <<
    [path |-> <<"s","r","c">>, type |-> "tree"],
    [path |-> <<"s","r","c","/","m","a","i","n",".","p","y">>, type |-> "blob"],
    [path |-> <<"s","e","t","u","p",".","p","y">>, type |-> "blob"],
    [path |-> <<"R","E","A","D","M","E",".","m","d">>, type |-> "blob"],
    [path |-> <<"M","a","k","e","f","i","l","e">>, type |-> "blob"],
    [path |-> <<"d","o","c","s">>, type |-> "tree"],
    [path |-> <<"d","o","c","s","/","g","u","i","d","e",".","m","d">>, type |-> "blob"]
  >>

TreeDup ==
  <<
    [path |-> <<"s","e","t","u","p",".","p","y">>, type |-> "blob"],
    [path |-> <<"m","a","i","n",".","p","y">>, type |-> "blob"],
    [path |-> <<"s","e","t","u","p",".","p","y">>, type |-> "blob"],
    [path |-> <<"m","a","i","n",".","p","y">>, type |-> "blob"]
  >>

TreeDeep ==
  <<
    [path |-> <<"a">>, type |-> "tree"],
    [path |-> <<"a","/","b">>, type |-> "tree"],
    [path |-> <<"a","/","b","/","c",".","p","y">>, type |-> "blob"],
    [path |-> <<"a","/","b","/","c">>, type |-> "tree"],
    [path |-> <<"a","/","b","/","c","/","d",".","p","y">>, type |-> "blob"],
    [path |-> <<"a","/","b","/","c","/","d">>, type |-> "tree"],
    [path |-> <<"a","/","b","/","c","/","d","/","M","a","k","e","f","i","l","e">>, type |-> "blob"],
    [path |-> <<"x",".","P","Y">>, type |-> "blob"],
    [path |-> <<"D","o","c","k","e","r","f","i","l","e">>, type |-> "blob"],
    [path |-> <<"n","o","t","e","s",".","t","x","t">>, type |-> "blob"],
    [path |-> <<".","b","a","s","h","r","c">>, type |-> "blob"]
  >>

TreeExcluded ==
  <<
    [path |-> <<".","g","i","t","h","u","b">>, type |-> "tree"],
    [path |-> <<".","g","i","t","h","u","b","/","c","i",".","p","y">>, type |-> "blob"],
    [path |-> <<"n","o","d","e","_","m","o","d","u","l","e","s">>, type |-> "tree"],
    [path |-> <<"n","o","d","e","_","m","o","d","u","l","e","s","/","x",".","j","s">>, type |-> "blob"],
    [path |-> <<"_","_","p","y","c","a","c","h","e","_","_">>, type |-> "tree"],
    [path |-> <<"_","_","p","y","c","a","c","h","e","_","_","/","m",".","p","y">>, type |-> "blob"],
    [path |-> <<"p","k","g",".","e","g","g","-","i","n","f","o">>, type |-> "tree"],
    [path |-> <<"p","k","g",".","e","g","g","-","i","n","f","o","/","t","o","p",".","p","y">>, type |-> "blob"],
    [path |-> <<"b","u","i","l","d">>, type |-> "tree"],
    [path |-> <<"b","u","i","l","d","/","g","e","n",".","p","y">>, type |-> "blob"],
    [path |-> <<".","e","n","v",".","e","x","a","m","p","l","e">>, type |-> "blob"],
    [path |-> <<"l","i","b",".","r","b">>, type |-> "blob"],
    [path |-> <<"s","u","b">>, type |-> "commit"]
  >>

TreeManyCode ==
  <<
    [path |-> <<"l",".","p","y">>, type |-> "blob"],
    [path |-> <<"k",".","p","y">>, type |-> "blob"],
    [path |-> <<"j",".","p","y">>, type |-> "blob"],
    [path |-> <<"i",".","p","y">>, type |-> "blob"],
    [path |-> <<"h",".","p","y">>, type |-> "blob"],
    [path |-> <<"g",".","p","y">>, type |-> "blob"],
    [path |-> <<"f",".","p","y">>, type |-> "blob"],
    [path |-> <<"e",".","p","y">>, type |-> "blob"],
    [path |-> <<"d",".","p","y">>, type |-> "blob"],
    [path |-> <<"c",".","p","y">>, type |-> "blob"],
    [path |-> <<"b",".","p","y">>, type |-> "blob"],
    [path |-> <<"a",".","p","y">>, type |-> "blob"],
    [path |-> <<"g","o",".","m","o","d">>, type |-> "blob"]
  >>

TreeManyImportant ==
  <<
    [path |-> <<"z",".","p","y">>, type |-> "blob"],
    [path |-> <<"s","e","t","u","p",".","p","y">>, type |-> "blob"],
    [path |-> <<"s","e","t","u","p",".","c","f","g">>, type |-> "blob"],
    [path |-> <<"p","y","p","r","o","j","e","c","t",".","t","o","m","l">>, type |-> "blob"],
    [path |-> <<"p","a","c","k","a","g","e",".","j","s","o","n">>, type |-> "blob"],
    [path |-> <<"C","a","r","g","o",".","t","o","m","l">>, type |-> "blob"],
    [path |-> <<"g","o",".","m","o","d">>, type |-> "blob"],
    [path |-> <<"p","o","m",".","x","m","l">>, type |-> "blob"],
    [path |-> <<"M","a","k","e","f","i","l","e">>, type |-> "blob"],
    [path |-> <<"D","o","c","k","e","r","f","i","l","e">>, type |-> "blob"],
    [path |-> <<"G","e","m","f","i","l","e">>, type |-> "blob"],
    [path |-> <<"r","e","q","u","i","r","e","m","e","n","t","s",".","t","x","t">>, type |-> "blob"]
  >>

Digits == <<"0", "1", "2", "3", "4", "5", "6", "7", "8", "9">>

\* the i-th of a run of plain files "g00", "g01", ... (neither important nor code)
Plain(i) ==
    [path |-> <<"g", Digits[(i \div 10) + 1], Digits[(i % 10) + 1]>>,
     type |-> "blob"]

\* one code file and n plain files, listed last to first
TreeWide(n) ==
    <<[path |-> <<"m","a","i","n",".","p","y">>, type |-> "blob"]>>
    \o [i \in 1..n |-> Plain(n - i)]

\* how far around max_entries the wide trees reach
Slack == 1

Trees ==
    {<<>>, TreeBasic, TreeDup, TreeDeep, TreeExcluded, TreeManyCode,
     TreeManyImportant}
    \cup {TreeWide(n) : n \in (max_entries - 1 - Slack)..(max_entries - 1 + Slack)}

\* status and text length of a read or fetch
Fetched(n) == [status |-> 200, len |-> n]

NotFetched == [status |-> 404, len |-> 0]

FileSizes == {200, 1499, 6001}

Outcomes == {NotFetched} \cup {Fetched(n) : n \in FileSizes}

\* number of paths of a snapshot whose outcome varies independently
MaxVaried == 2

\* keep the first occurrence of each element
Dedupe(s) ==
    LET kept == SelectSeq(Indices(s), LAMBDA i : \A j \in 1..(i - 1) : s[j] # s[i])
    IN  [k \in 1..Len(kept) |-> s[kept[k]]]

\* the blobs a selection can pick, in tree order
Pickable(t) ==
    Dedupe(Paths(SelectSeq(t, LAMBDA item :
        /\ item.type = "blob"
        /\ \/ lower(basename(item.path)) \in IMPORTANT_FILES
           \/ lower(splitext(item.path)) \in CODE_EXTENSIONS)))

\* the outcomes of a snapshot: the first MaxVaried pickable paths vary one by
\* one, every other file shares one outcome
FileSystems(t) ==
    LET blobs  == {t[i].path : i \in {j \in 1..Len(t) : t[j].type = "blob"}}
        pick   == Pickable(t)
        varied == {pick[i] : i \in 1..(IF Len(pick) < MaxVaried
                                       THEN Len(pick) ELSE MaxVaried)}
    IN  {[p \in blobs |-> IF p \in varied THEN f[p] ELSE rest] :
            f \in [varied -> Outcomes], rest \in Outcomes}

-----------------------------------------------------------------------------
(* Dataset collection: scripts/prepare_data.py.                            *)

\* the entries build_file_tree_string keeps
Listed(t) ==
    SelectSeq(t, LAMBDA item :
        /\ item.type \in {"blob", "tree"}
        /\ ~ \E part \in Range(split(item.path, "/")) : startswith(part, <<".">>)
        /\ ~Contains(item.path, <<"n","o","d","e","_","m","o","d","u","l","e","s">>)
        /\ ~Contains(item.path, <<"_","_","p","y","c","a","c","h","e","_","_">>)
        /\ ~Contains(item.path, <<".","e","g","g","-","i","n","f","o">>))

\* build_file_tree_string with the cut taken at max_entries entries already
build_file_tree_string_atcap(t) ==
    LET paths == sorted(Paths(Listed(t)))
    IN  IF Len(paths) >= max_entries
        THEN join(<<"\n">>, Append(SubSeq(paths, 1, max_entries), TruncationMarker))
        ELSE join(<<"\n">>, paths)

build_file_tree_string(t) ==
    LET paths == sorted(Paths(Listed(t)))
    IN  IF Len(paths) > max_entries
        THEN join(<<"\n">>, Append(SubSeq(paths, 1, max_entries), TruncationMarker))
        ELSE join(<<"\n">>, paths)

\* first loop of select_key_files and of scan_github_repo
ImportantPass(t) ==
    Paths(SelectSeq(t, LAMBDA item :
        /\ item.type = "blob"
        /\ lower(basename(item.path)) \in IMPORTANT_FILES))

\* the test of the second loop without its depth limit
IsCodeFile_anydepth(path) == lower(splitext(path)) \in CODE_EXTENSIONS

\* the test of the second loop on one path
IsCodeFile(path) ==
    /\ lower(splitext(path)) \in CODE_EXTENSIONS
    /\ count(path, "/") <= 2

\* second loop of select_key_files
CodePass(t) ==
    Paths(SelectSeq(t, LAMBDA item : item.type = "blob" /\ IsCodeFile(item.path)))

\* s[:n]
Take(s, n) == SubSeq(s, 1, IF Len(s) < n THEN Len(s) ELSE n)

select_key_files(t) ==
    Take(Dedupe(ImportantPass(t) \o CodePass(t)), MAX_KEY_FILES)

\* a fetch that hands back an empty text when the request is refused
get_file_content_empty(path) ==
    [none |-> FALSE, src |-> path, len |-> files[path].len]

\* get_file_content: the text, or None on a status other than 200
get_file_content(path) ==
    IF files[path].status # 200 THEN [none |-> TRUE]
    ELSE [none |-> FALSE, src |-> path, len |-> files[path].len]

\* the content left uncut
Truncate_none(content) == content

\* content[:MAX_FILE_CHARS]
Truncate(content) ==
    [content EXCEPT !.len = IF @ < MAX_FILE_CHARS THEN @ ELSE MAX_FILE_CHARS]

\* the total of the scan before, kept
InitTotalChars_stale == total_chars

\* total_chars = 0 ahead of a snippet loop
InitTotalChars == 0

\* a loop that ends when one more full file might pass the budget
BudgetSpent_early(total) == total + MAX_FILE_CHARS > MAX_TOTAL_CODE_CHARS

\* the test that ends a snippet loop
BudgetSpent(total) == total >= MAX_TOTAL_CODE_CHARS

\* f"--- {path} ---\n{content}"
Block(path, content) == [path |-> path, src |-> content.src, len |-> content.len]

-----------------------------------------------------------------------------
(* Scanners: scripts/inference.py.                                         *)

\* the second loop of the scanners: append each candidate not yet in key_files
AppendAbsent(keys, cands) ==
    LET F[i \in 0..Len(cands)] ==
            IF i = 0 THEN keys
            ELSE IF InSeq(cands[i], F[i - 1]) THEN F[i - 1]
            ELSE Append(F[i - 1], cands[i])
    IN  F[Len(cands)]

\* os.walk with the pruning of ignored and dotted directories: the files of the
\* tree, each once, that have no pruned directory above them
walk(t) ==
    Dedupe(Paths(SelectSeq(t, LAMBDA item :
        /\ item.type = "blob"
        /\ LET parts == split(item.path, "/")
           IN  \A k \in 1..(Len(parts) - 1) :
                   /\ parts[k] \notin IGNORE_DIRS
                   /\ ~startswith(parts[k], <<".">>))))

local_all_files(t) == sorted(walk(t))

local_file_tree(all_files) ==
    IF Len(all_files) > 80
    THEN join(<<"\n">>, SubSeq(all_files, 1, 80)) \o <<"\n">> \o TruncationMarker
    ELSE join(<<"\n">>, all_files)

local_key_files(all_files) ==
    Take(AppendAbsent(
            SelectSeq(all_files, LAMBDA f : lower(basename(f)) \in IMPORTANT_FILES),
            SelectSeq(all_files, LAMBDA f :
                lower(splitext(f)) \in CODE_EXTENSIONS /\ count(f, "/") <= 2)),
         10)

\* the entries scan_github_repo lists
github_listed(t) ==
    SelectSeq(t, LAMBDA item :
        /\ item.type \in {"blob", "tree"}
        /\ ~ \E part \in Range(split(item.path, "/")) : startswith(part, <<".">>)
        /\ ~Contains(item.path, <<"n","o","d","e","_","m","o","d","u","l","e","s">>)
        /\ ~Contains(item.path, <<"_","_","p","y","c","a","c","h","e","_","_">>))

github_file_tree(t) ==
    LET paths == sorted(Paths(github_listed(t)))
    IN  IF Len(paths) > 80
        THEN join(<<"\n">>, SubSeq(paths, 1, 80)) \o <<"\n">> \o TruncationMarker
        ELSE join(<<"\n">>, paths)

github_key_files(t) ==
    Take(AppendAbsent(
            ImportantPass(t),
            Paths(SelectSeq(t, LAMBDA item :
                /\ item.type = "blob"
                /\ lower(splitext(item.path)) \in CODE_EXTENSIONS
                /\ count(item.path, "/") <= 2))),
         10)

-----------------------------------------------------------------------------
(* One scan: listing and selection, the snippet loop, the return.          *)

Variants == {"dataset", "github", "local"}

\* number of scans of one behaviour
MaxCalls == 2

Calls == Len(results["dataset"]) + Len(results["github"]) + Len(results["local"])

\* the statuses with which the tree request of a repository is refused
FailureStatuses == {403, 404, 500}

\* no scan is running and the caller has not been aborted
Ready == pc \in {"idle", "skipped"}

\* process_repo up to the call of build_code_snippets
process_repo_start ==
    /\ Ready /\ Calls < MaxCalls
    /\ tree_status = 200
    /\ variant' = "dataset"
    /\ file_tree' = build_file_tree_string(tree)
    /\ key_files' = select_key_files(tree)
    /\ total_chars' = InitTotalChars
    /\ snippets' = <<>> /\ attempted' = <<>> /\ idx' = 1
    /\ pc' = "loop"
    /\ UNCHANGED <<tree, files, results, tree_status, otherVars>>

\* process_repo when get_repo_tree returns None: process_repo returns None
\* and collect_dataset goes on to the next repository
process_repo_skip ==
    /\ Ready
    /\ tree_status \in FailureStatuses
    /\ variant' = "dataset"
    /\ pc' = "skipped"
    /\ file_tree' = <<>> /\ key_files' = <<>> /\ idx' = 1
    /\ total_chars' = 0 /\ snippets' = <<>> /\ attempted' = <<>>
    /\ UNCHANGED <<tree, files, results, tree_status, otherVars>>

\* scan_github_repo when the tree request is refused: raise_for_status
\* raises HTTPError, which no caller catches
scan_github_repo_raise ==
    /\ Ready
    /\ tree_status \in FailureStatuses
    /\ variant' = "github"
    /\ pc' = "raised"
    /\ file_tree' = <<>> /\ key_files' = <<>> /\ idx' = 1
    /\ total_chars' = 0 /\ snippets' = <<>> /\ attempted' = <<>>
    /\ UNCHANGED <<tree, files, results, tree_status, otherVars>>

\* scan_github_repo up to its snippet loop
scan_github_repo_start ==
    /\ Ready /\ Calls < MaxCalls
    /\ tree_status = 200
    /\ variant' = "github"
    /\ file_tree' = github_file_tree(tree)
    /\ key_files' = github_key_files(tree)
    /\ total_chars' = InitTotalChars
    /\ snippets' = <<>> /\ attempted' = <<>> /\ idx' = 1
    /\ pc' = "loop"
    /\ UNCHANGED <<tree, files, results, tree_status, otherVars>>

\* scan_local_repo up to its snippet loop; it sends no tree request
scan_local_repo_start ==
    /\ Ready /\ Calls < MaxCalls
    /\ variant' = "local"
    /\ LET all_files == local_all_files(tree)
       IN  /\ file_tree' = local_file_tree(all_files)
           /\ key_files' = local_key_files(all_files)
    /\ total_chars' = InitTotalChars
    /\ snippets' = <<>> /\ attempted' = <<>> /\ idx' = 1
    /\ pc' = "loop"
    /\ UNCHANGED <<tree, files, results, tree_status, otherVars>>

\* one iteration of the loop of build_code_snippets
build_code_snippets_step ==
    /\ pc = "loop" /\ variant = "dataset"
    /\ IF idx > Len(key_files) \/ BudgetSpent(total_chars)
       THEN /\ pc' = "join"
            /\ UNCHANGED <<idx, total_chars, snippets, attempted>>
       ELSE LET path    == key_files[idx]
                content == get_file_content(path)
            IN  /\ attempted' = Append(attempted, path)
                /\ idx' = idx + 1
                /\ pc' = "loop"
                /\ IF content.none
                   THEN UNCHANGED <<total_chars, snippets>>
                   ELSE /\ total_chars' = total_chars + Truncate(content).len
                        /\ snippets' = Append(snippets, Block(path, Truncate(content)))
    /\ UNCHANGED <<tree, files, variant, file_tree, key_files, results,
                   tree_status, otherVars>>

\* one iteration of the download loop of scan_github_repo
scan_github_repo_step ==
    /\ pc = "loop" /\ variant = "github"
    /\ IF idx > Len(key_files) \/ BudgetSpent(total_chars)
       THEN /\ pc' = "join"
            /\ UNCHANGED <<idx, total_chars, snippets, attempted>>
       ELSE LET path == key_files[idx]
                resp == files[path]
            IN  /\ attempted' = Append(attempted, path)
                /\ idx' = idx + 1
                /\ pc' = "loop"
                /\ IF resp.status = 200
                   THEN LET content == Truncate([src |-> path, len |-> resp.len])
                        IN  /\ total_chars' = total_chars + content.len
                            /\ snippets' = Append(snippets, Block(path, content))
                   ELSE UNCHANGED <<total_chars, snippets>>
    /\ UNCHANGED <<tree, files, variant, file_tree, key_files, results,
                   tree_status, otherVars>>

\* one iteration of the read loop of scan_local_repo; a status other than 200
\* stands for the OSError of read_text
scan_local_repo_step ==
    /\ pc = "loop" /\ variant = "local"
    /\ IF idx > Len(key_files) \/ BudgetSpent(total_chars)
       THEN /\ pc' = "join"
            /\ UNCHANGED <<idx, total_chars, snippets, attempted>>
       ELSE LET f == key_files[idx]
            IN  /\ attempted' = Append(attempted, f)
                /\ idx' = idx + 1
                /\ pc' = "loop"
                /\ IF files[f].status = 200
                   THEN LET content == Truncate([src |-> f, len |-> files[f].len])
                        IN  /\ total_chars' = total_chars + content.len
                            /\ snippets' = Append(snippets, Block(f, content))
                   ELSE UNCHANGED <<total_chars, snippets>>
    /\ UNCHANGED <<tree, files, variant, file_tree, key_files, results,
                   tree_status, otherVars>>

\* repo_info["full_name"], owner_repo, Path(repo_path).resolve().name
repo_name(v) == IF v = "local" THEN "demo" ELSE "octo/demo"

\* "\n\n".join(snippets) and the return of the scan
scan_return ==
    /\ pc = "join"
    /\ results' = [results EXCEPT ![variant] = Append(@,
            [repo_name     |-> repo_name(variant),
             file_tree     |-> file_tree,
             key_files     |-> key_files,
             code_snippets |-> snippets])]
    /\ pc' = "idle"
    /\ UNCHANGED <<tree, files, variant, file_tree, key_files, idx,
                   total_chars, snippets, attempted, tree_status, otherVars>>

-----------------------------------------------------------------------------
(* README quality gate: scripts/prepare_data.py.                           *)

MAX_README_CHARS == 4000

\* str.isspace() on one character
IsSpace(c) == c \in {" ", "\t", "\n"}

\* len(s.split()): the maximal runs of characters that are not whitespace
WordCount(s) ==
    Cardinality({i \in 1..Len(s) :
        ~IsSpace(s[i]) /\ (i = 1 \/ IsSpace(s[i - 1]))})

\* the gate with its lower length limit off by one
is_quality_readme_open(r) ==
    IF Len(r) <= 200 THEN FALSE
    ELSE IF Len(r) > MAX_README_CHARS THEN FALSE
    ELSE IF count(r, "#") < 2 THEN FALSE
    ELSE IF WordCount(r) < 50 THEN FALSE
    ELSE TRUE

is_quality_readme(r) ==
    IF Len(r) < 200 THEN FALSE
    ELSE IF Len(r) > MAX_README_CHARS THEN FALSE
    ELSE IF count(r, "#") < 2 THEN FALSE
    ELSE IF WordCount(r) < 50 THEN FALSE
    ELSE TRUE

\* a README of n characters with h '#' and w words: "##a b\nb b\nb ... bxxxx"
ReadmeText(n, h, w) ==
    [i \in 1..n |->
        IF i <= h THEN "#"
        ELSE IF i = h + 1 THEN "a"
        ELSE IF i <= h + 1 + 2 * (w - 1)
             THEN (IF (i - h) % 2 = 1 THEN "b"
                   ELSE IF (i - h) % 4 = 0 THEN "\n" ELSE " ")
        ELSE "x"]

ReadmeShapes ==
    [len    : {199, 200, 201, MAX_README_CHARS - 1, MAX_README_CHARS,
               MAX_README_CHARS + 1},
     hashes : 0..3,
     words  : {1, 49, 50, 51}]

\* process_repo: the gate on the normalized README
quality_gate ==
    /\ pc = "readme"
    /\ accepted' = is_quality_readme(readme)
    /\ pc' = "gated"
    /\ UNCHANGED <<readme, shape, scanVars, scoreVars, laterVars>>

-----------------------------------------------------------------------------
(* Structural scorer: scripts/evaluate.py.                                 *)

\* s.strip()
strip(s) ==
    LET n == Len(s)
    IN  IF \A i \in 1..n : IsSpace(s[i]) THEN <<>>
        ELSE LET first == CHOOSE i \in 1..n :
                              ~IsSpace(s[i]) /\ \A j \in 1..(i - 1) : IsSpace(s[j])
                 last  == CHOOSE i \in 1..n :
                              ~IsSpace(s[i]) /\ \A j \in (i + 1)..n : IsSpace(s[j])
             IN  SubSeq(s, first, last)

\* a fence counter that lets matches overlap
CountFences_overlapping(s) ==
    Cardinality({i \in 1..(Len(s) - 2) :
        s[i] = Backtick /\ s[i + 1] = Backtick /\ s[i + 2] = Backtick})

\* len(re.findall(r"```", s)): matches are taken left to right and do not
\* overlap, so a match starts at every third backtick of a run of backticks
\* that has two more backticks after it
CountFences(s) ==
    LET tick(i) == i >= 1 /\ i <= Len(s) /\ s[i] = Backtick
        runStart(i) == Max({j \in 1..i : tick(j) /\ ~tick(j - 1)
                                         /\ \A k \in j..i : tick(k)})
    IN  Cardinality({i \in 1..Len(s) :
            /\ tick(i) /\ tick(i + 1) /\ tick(i + 2)
            /\ (i - runStart(i)) % 3 = 0})

\* re.search of one (?i) alternative: "." is any character but a newline
SearchTerm(s, term) ==
    \E i \in 1..(Len(s) - Len(term) + 1) :
        \A k \in 1..Len(term) :
            IF term[k] = "." THEN s[i + k - 1] # "\n"
            ELSE LowerChar(s[i + k - 1]) = term[k]

InstallTerms == {
    <<"i","n","s","t","a","l","l">>,
    <<"s","e","t","u","p">>,
    <<"g","e","t","t","i","n","g",".","s","t","a","r","t","e","d">>
  }

UsageTerms == {
    <<"u","s","a","g","e">>,
    <<"h","o","w",".","t","o",".","u","s","e">>,
    <<"e","x","a","m","p","l","e">>,
    <<"q","u","i","c","k",".","s","t","a","r","t">>
  }

structural_score(t) ==
    LET lines == split(t, "\n")
        headings == {i \in 1..Len(lines) : startswith(strip(lines[i]), <<"#">>)}
        bullets  == {i \in 1..Len(lines) :
                        \/ startswith(strip(lines[i]), <<"-">>)
                        \/ startswith(strip(lines[i]), <<"*">>)
                        \/ startswith(strip(lines[i]), <<Bullet>>)}
    IN  [num_headings        |-> Cardinality(headings),
         num_code_blocks     |-> CountFences(t) \div 2,
         has_install_section |-> \E term \in InstallTerms : SearchTerm(t, term),
         has_usage_section   |-> \E term \in UsageTerms : SearchTerm(t, term),
         has_description     |-> Len(t) > 100,
         num_bullet_points   |-> Cardinality(bullets),
         total_length        |-> Len(t),
         total_lines         |-> Len(lines)]

\* longest text of the enumerated inputs
MaxTextLen == 3

TextChars == {"#", Backtick, "-", "\n", " ", "a"}

\* "# Title\n\nSome text with ```code``` fence.\n- item one\n- item two"
ScenarioText ==
    <<"#"," ","T","i","t","l","e","\n","\n","S","o","m","e"," ","t","e","x","t"," ","w","i","t","h"," ">> \o <<Backtick, Backtick, Backtick>> \o <<"c","o","d","e">>
      \o <<Backtick, Backtick, Backtick>> \o <<" ","f","e","n","c","e",".","\n","-"," ","i","t","e","m"," ","o","n","e","\n","-"," ","i","t","e","m"," ","t","w","o">>

SampleTexts == {
    ScenarioText,
    [i \in 1..4 |-> Backtick],
    [i \in 1..6 |-> Backtick],
    [i \in 1..9 |-> Backtick],
    <<" ", "\t", "*", " ", "a", "\n", Bullet, "\n", "a", "-", "\n", " ", "#", "#">>,
    <<"I","n","s","t","a","l","l"," ","i","t">>,
    <<"G","e","t","t","i","n","g","\n","s","t","a","r","t","e","d">>,
    <<"g","e","t","t","i","n","g"," ","s","t","a","r","t","e","d">>,
    <<"#","#"," ","U","s","a","g","e">>,
    <<"h","o","w"," ","t","o"," ","u","s","e">>,
    [i \in 1..100 |-> "a"],
    [i \in 1..101 |-> "a"]
  }

Texts ==
    UNION {[1..n -> TextChars] : n \in 0..MaxTextLen} \cup SampleTexts

NoScore ==
    [num_headings |-> 0, num_code_blocks |-> 0, has_install_section |-> FALSE,
     has_usage_section |-> FALSE, has_description |-> FALSE,
     num_bullet_points |-> 0, total_length |-> 0, total_lines |-> 0]

\* evaluate: s_score = structural_score(generated)
score_text ==
    /\ pc = "text"
    /\ score' = structural_score(text)
    /\ pc' = "scored"
    /\ UNCHANGED <<text, scanVars, gateVars, laterVars>>

-----------------------------------------------------------------------------
(* Aggregation of structural scores: scripts/evaluate.py.                  *)

\* a Python float that is the quotient of two integers, kept exact
Quotient(a, n) == [num |-> a, den |-> n]

\* q * k
Times(q, k) == [num |-> q.num * k, den |-> q.den]

\* sum(s[metric] for s in scores) of a numeric metric
RECURSIVE Sum(_, _)
Sum(batch, metric) ==
    IF batch = <<>> THEN 0
    ELSE Head(batch)[metric] + Sum(Tail(batch), metric)

\* sum(s[metric] for s in scores) of a boolean metric: True is 1, False is 0
RECURSIVE SumBool(_, _)
SumBool(batch, metric) ==
    IF batch = <<>> THEN 0
    ELSE (IF Head(batch)[metric] THEN 1 ELSE 0) + SumBool(Tail(batch), metric)

\* an aggregation that leaves the boolean metrics as fractions
compute_structural_aggregate_fraction(batch) ==
    LET n == Len(batch)
    IN  [avg_headings        |-> Quotient(Sum(batch, "num_headings"), n),
         avg_code_blocks     |-> Quotient(Sum(batch, "num_code_blocks"), n),
         pct_has_install     |-> Quotient(SumBool(batch, "has_install_section"), n),
         pct_has_usage       |-> Quotient(SumBool(batch, "has_usage_section"), n),
         pct_has_description |-> Quotient(SumBool(batch, "has_description"), n),
         avg_bullet_points   |-> Quotient(Sum(batch, "num_bullet_points"), n),
         avg_length          |-> Quotient(Sum(batch, "total_length"), n),
         avg_lines           |-> Quotient(Sum(batch, "total_lines"), n)]

compute_structural_aggregate(batch) ==
    LET n == Len(batch)
    IN  [avg_headings        |-> Quotient(Sum(batch, "num_headings"), n),
         avg_code_blocks     |-> Quotient(Sum(batch, "num_code_blocks"), n),
         pct_has_install     |-> Times(Quotient(SumBool(batch, "has_install_section"), n), 100),
         pct_has_usage       |-> Times(Quotient(SumBool(batch, "has_usage_section"), n), 100),
         pct_has_description |-> Times(Quotient(SumBool(batch, "has_description"), n), 100),
         avg_bullet_points   |-> Quotient(Sum(batch, "num_bullet_points"), n),
         avg_length          |-> Quotient(Sum(batch, "total_length"), n),
         avg_lines           |-> Quotient(Sum(batch, "total_lines"), n)]

\* longest batch of the enumerated inputs
MaxBatch == 3

\* the texts whose scores make up the batches
BatchTexts == {
    <<>>,
    ScenarioText,
    <<"I","n","s","t","a","l","l"," ","i","t">>,
    <<"#","#"," ","U","s","a","g","e">>,
    [i \in 1..101 |-> "a"]
  }

ScoreSamples == {structural_score(t) : t \in BatchTexts}

Batches == UNION {[1..n -> ScoreSamples] : n \in 0..MaxBatch}

NoAggregate == [n |-> 0]

\* compute_structural_aggregate(scores) on a batch that is not empty
aggregate_scores ==
    /\ pc = "batch"
    /\ Len(scores) >= 1
    /\ aggregate' = compute_structural_aggregate(scores)
    /\ pc' = "aggregated"
    /\ UNCHANGED <<scores, earlyVars, collectVars, evalVars, diskVars>>

\* compute_structural_aggregate([]): the first division by n raises
\* ZeroDivisionError
aggregate_empty ==
    /\ pc = "batch"
    /\ Len(scores) = 0
    /\ pc' = "raised"
    /\ UNCHANGED <<aggVars, earlyVars, collectVars, evalVars, diskVars>>

AggIdle == scores = <<>> /\ aggregate = NoAggregate

-----------------------------------------------------------------------------
(* README normalization: scripts/prepare_data.py.                          *)

\* s[i:].startswith(lit)
StartsAt(s, i, lit) ==
    /\ i + Len(lit) - 1 <= Len(s)
    /\ \A k \in 1..Len(lit) : s[i + k - 1] = lit[k]

\* r"\[!\[.*?\]\(.*?\)\]\(.*?\)" and r"!\[.*?\]\(.*?\)": literal pieces with
\* a lazy ".*?" between two of them
LinkedBadge == <<<<"[","!","[">>, <<"]","(">>, <<")","]","(">>, <<")">>>>

ImageBadge == <<<<"!","[">>, <<"]","(">>, <<")">>>>

\* where the match of pieces[k..] ends that starts its search at position at, 0 if
\* there is none: ".*?" takes the nearest occurrence of the next piece and
\* "." does not match a newline
RECURSIVE MatchEnd(_, _, _, _)
MatchEnd(s, at, pieces, k) ==
    IF k > Len(pieces) THEN at
    ELSE LET breaks == {j \in at..Len(s) : s[j] = "\n"}
             stop   == IF breaks = {} THEN Len(s) + 1 ELSE Min(breaks)
             found  == {j \in at..(stop - Len(pieces[k])) : StartsAt(s, j, pieces[k])}
         IN  IF found = {} THEN 0
             ELSE MatchEnd(s, Min(found) + Len(pieces[k]), pieces, k + 1)

\* re.match of the pattern at position i: the position after the match, or 0
MatchAt(s, i, pieces) ==
    IF StartsAt(s, i, pieces[1]) THEN MatchEnd(s, i + Len(pieces[1]), pieces, 2)
    ELSE 0

\* the matches re.sub replaces: leftmost first, never overlapping
RECURSIVE Matches(_, _, _)
Matches(s, from, pieces) ==
    LET cand == {i \in from..Len(s) : MatchAt(s, i, pieces) > 0}
    IN  IF cand = {} THEN {}
        ELSE LET i == Min(cand)
             IN  {<<i, MatchAt(s, i, pieces)>>} \cup Matches(s, MatchAt(s, i, pieces), pieces)

\* the characters of s at the positions keep(i) holds for
Keep(s, keep(_)) ==
    LET kept == SelectSeq(Indices(s), keep)
    IN  SubSeq([k \in 1..Len(kept) |-> s[kept[k]]], 1, Len(kept))

\* re.sub(pattern, "", s)
RemoveMatches(s, pieces) ==
    LET spans == Matches(s, 1, pieces)
    IN  IF spans = {} THEN s
        ELSE Keep(s, LAMBDA i : \A m \in spans : i < m[1] \/ i >= m[2])

\* re.sub(r"\n{3,}", "\n\n", s): of a run of newlines the first two stay
CollapseNewlines(s) ==
    Keep(s, LAMBDA i : ~(i >= 3 /\ s[i] = "\n" /\ s[i - 1] = "\n" /\ s[i - 2] = "\n"))

clean_readme(r) ==
    strip(CollapseNewlines(RemoveMatches(RemoveMatches(r, LinkedBadge), ImageBadge)))

-----------------------------------------------------------------------------
(* Dataset collection: scripts/prepare_data.py.                            *)

languages ==
    <<"Python", "JavaScript", "TypeScript", "Go", "Rust",
      "Java", "C++", "Ruby", "PHP", "Swift">>

ReadmeNames == {<<"r","e","a","d","m","e",".","m","d">>, <<"r","e","a","d","m","e",".","r","s","t">>, <<"r","e","a","d","m","e",".","t","x","t">>, <<"r","e","a","d","m","e">>}

\* the repositories a search result can name, by what they hold: the tree
\* response, the outcome of fetching each path and the text of the README
KindTree ==
    <<[path |-> <<"R","E","A","D","M","E",".","m","d">>, type |-> "blob"],
    [path |-> <<"s","e","t","u","p",".","p","y">>, type |-> "blob"],
    [path |-> <<"s","r","c">>, type |-> "tree"],
    [path |-> <<"s","r","c","/","m","a","i","n",".","p","y">>, type |-> "blob"]>>

KindTreeBare ==
    <<[path |-> <<"R","E","A","D","M","E",".","m","d">>, type |-> "blob"],
    [path |-> <<"m","a","i","n",".","p","y">>, type |-> "blob"]>>

KindTreeDocs ==
    <<[path |-> <<"d","o","c","s">>, type |-> "tree"],
    [path |-> <<"d","o","c","s","/","R","E","A","D","M","E",".","m","d">>, type |-> "blob"],
    [path |-> <<"R","E","A","D","M","E",".","m","d">>, type |-> "tree"],
    [path |-> <<"m","a","i","n",".","p","y">>, type |-> "blob"]>>

KindTreeNoCode ==
    <<[path |-> <<"R","E","A","D","M","E",".","m","d">>, type |-> "blob"],
    [path |-> <<"n","o","t","e","s",".","t","x","t">>, type |-> "blob"]>>

AllFetched(t) == [p \in Range(Paths(t)) |-> Fetched(200)]

\* "![b](u)", an image badge
Badge == <<"!","[","b","]","(","u",")">>

GoodReadme == ReadmeText(300, 2, 50)

Kinds ==
    [ok         |-> [tree_status |-> 200, tree |-> KindTree,
                     files |-> AllFetched(KindTree), readme |-> GoodReadme],
     notree     |-> [tree_status |-> 404, tree |-> KindTree,
                     files |-> AllFetched(KindTree), readme |-> GoodReadme],
     noreadme   |-> [tree_status |-> 200, tree |-> KindTreeDocs,
                     files |-> AllFetched(KindTreeDocs), readme |-> GoodReadme],
     readme404  |-> [tree_status |-> 200, tree |-> KindTree,
                     files |-> [AllFetched(KindTree) EXCEPT ![<<"R","E","A","D","M","E",".","m","d">>] = NotFetched],
                     readme |-> GoodReadme],
     badreadme  |-> [tree_status |-> 200, tree |-> KindTree,
                     files |-> AllFetched(KindTree), readme |-> ReadmeText(300, 1, 50)],
     rawonly    |-> [tree_status |-> 200, tree |-> KindTree,
                     files |-> AllFetched(KindTree),
                     readme |-> Badge \o ReadmeText(195, 2, 50)],
     cleanonly  |-> [tree_status |-> 200, tree |-> KindTree,
                     files |-> AllFetched(KindTree),
                     readme |-> ReadmeText(MAX_README_CHARS - 2, 2, 50) \o <<"\n", "\n", "\n">>],
     nocode     |-> [tree_status |-> 200, tree |-> KindTreeNoCode,
                     files |-> AllFetched(KindTreeNoCode), readme |-> GoodReadme],
     nofetch    |-> [tree_status |-> 200, tree |-> KindTreeBare,
                     files |-> [AllFetched(KindTreeBare) EXCEPT ![<<"m","a","i","n",".","p","y">>] = NotFetched],
                     readme |-> GoodReadme]]

KindNames == DOMAIN Kinds

\* one item of a search response
RepoInfo(language, rank, kind) ==
    [full_name        |-> [language |-> language, rank |-> rank],
     stargazers_count |-> 5000 - rank,
     language         |-> language,
     kind             |-> kind]

None == [none |-> TRUE]

\* get_repo_tree: the tree, or None on a status other than 200
get_repo_tree(repo_info) ==
    LET remote == Kinds[repo_info.kind]
    IN  IF remote.tree_status # 200 THEN None
        ELSE [none |-> FALSE, tree |-> remote.tree]

\* the README search of process_repo: the first blob whose lowered path is a
\* README name, None without one
FindReadme(t) ==
    LET hits == {i \in 1..Len(t) :
                    t[i].type = "blob" /\ lower(t[i].path) \in ReadmeNames}
    IN  IF hits = {} THEN None ELSE [none |-> FALSE, path |-> t[Min(hits)].path]

\* get_file_content of the README: its text, or None on a status other than 200
get_readme_content(repo_info, path) ==
    LET remote == Kinds[repo_info.kind]
    IN  IF remote.files[path].status # 200 THEN None
        ELSE [none |-> FALSE, text |-> remote.readme]

\* build_code_snippets from position i on, with the total and the blocks so far
RECURSIVE SnippetLoop(_, _, _, _, _)
SnippetLoop(fs, keys, i, total, blocks) ==
    IF i > Len(keys) \/ BudgetSpent(total) THEN blocks
    ELSE IF fs[keys[i]].status # 200
         THEN SnippetLoop(fs, keys, i + 1, total, blocks)
         ELSE LET content == Truncate([src |-> keys[i], len |-> fs[keys[i]].len])
              IN  SnippetLoop(fs, keys, i + 1, total + content.len,
                              Append(blocks, Block(keys[i], content)))

build_code_snippets(repo_info, keys) ==
    SnippetLoop(Kinds[repo_info.kind].files, keys, 1, InitTotalChars, <<>>)

\* the example of a repository that passed every test of process_repo
Example(repo_info, t, readme_content) ==
    LET code_snippets == build_code_snippets(repo_info, select_key_files(t))
    IN  IF code_snippets = <<>> THEN None
        ELSE [none           |-> FALSE,
              repo_name      |-> repo_info.full_name,
              file_tree      |-> build_file_tree_string(t),
              code_snippets  |-> code_snippets,
              readme_content |-> [len |-> Len(readme_content)],
              stars          |-> repo_info.stargazers_count,
              language       |-> repo_info.language]

\* process_repo with the gate put on the README as fetched
process_repo_rawgate(repo_info) ==
    LET got == get_repo_tree(repo_info)
    IN  IF got.none THEN None
        ELSE LET found == FindReadme(got.tree)
             IN  IF found.none THEN None
                 ELSE LET fetched == get_readme_content(repo_info, found.path)
                      IN  IF fetched.none THEN None
                          ELSE IF ~is_quality_readme(fetched.text) THEN None
                          ELSE Example(repo_info, got.tree, clean_readme(fetched.text))

process_repo(repo_info) ==
    LET got == get_repo_tree(repo_info)
    IN  IF got.none THEN None
        ELSE LET found == FindReadme(got.tree)
             IN  IF found.none THEN None
                 ELSE LET fetched == get_readme_content(repo_info, found.path)
                      IN  IF fetched.none THEN None
                          ELSE LET readme_content == clean_readme(fetched.text)
                               IN  IF ~is_quality_readme(readme_content) THEN None
                                   ELSE Example(repo_info, got.tree, readme_content)

\* json.dumps(example) + "\n": a line that parses back to the example
Dumps(example) == [parses |-> TRUE, value |-> example]

repos_per_language == num_repos \div Len(languages)

\* a page size that ignores what is already collected
per_page_full == Min({100, repos_per_language})

\* per_page of the next search request
per_page == Min({100, repos_per_language - collected})

\* the items search_repos returns on status 200: the page of the ranked list
search_repos(language, size, number) ==
    LET first == (number - 1) * size + 1
        last  == Min({number * size, Len(catalog)})
    IN  [k \in 1..(IF last < first THEN 0 ELSE last - first + 1) |->
            RepoInfo(language, first + k - 1, catalog[first + k - 1])]

Request(status) ==
    [language |-> languages[lang], page |-> page, per_page |-> per_page,
     status |-> status]

NoRequest == [language |-> "", page |-> 0, per_page |-> 0, status |-> 0]

\* number of consecutive rate-limited searches of one behaviour
MaxRetries == 2

\* the statuses raise_for_status raises on that are not the rate limit
ErrorStatuses == {422, 500}

\* the end of the while loop of one language: on to the next language, or to
\* the save after the last
NextLanguage ==
    IF lang < Len(languages)
    THEN /\ lang' = lang + 1
         /\ page' = 1
         /\ collected' = 0
         /\ pc' = "while"
    ELSE /\ pc' = "save"
         /\ UNCHANGED <<lang, page, collected>>

\* while collected < repos_per_language: the test holds
collect_while ==
    /\ pc = "while"
    /\ collected < repos_per_language
    /\ pc' = "search"
    /\ UNCHANGED <<num_repos, catalog, lang, page, collected, examples, repos,
                   pos, request, retries, earlyVars, aggVars, evalVars, diskVars>>

\* while collected < repos_per_language: the test fails
collect_language_done ==
    /\ pc = "while"
    /\ collected >= repos_per_language
    /\ NextLanguage
    /\ UNCHANGED <<num_repos, catalog, examples, repos, pos, request, retries,
                   earlyVars, aggVars, evalVars, diskVars>>

\* search_repos answered with status 200 and at least one item
search_repos_page ==
    /\ pc = "search"
    /\ search_repos(languages[lang], per_page, page) # <<>>
    /\ repos' = search_repos(languages[lang], per_page, page)
    /\ request' = Request(200)
    /\ retries' = 0
    /\ pos' = 1
    /\ pc' = "process"
    /\ UNCHANGED <<num_repos, catalog, lang, page, collected, examples,
                   earlyVars, aggVars, evalVars, diskVars>>

\* an empty page that does not end the loop of the language
search_repos_empty_continue ==
    /\ pc = "search"
    /\ search_repos(languages[lang], per_page, page) = <<>>
    /\ repos' = <<>>
    /\ request' = Request(200)
    /\ retries' = 0
    /\ pc' = "while"
    /\ UNCHANGED <<num_repos, catalog, lang, page, collected, examples, pos,
                   earlyVars, aggVars, evalVars, diskVars>>

\* search_repos answered with status 200 and no item: break
search_repos_empty ==
    /\ pc = "search"
    /\ search_repos(languages[lang], per_page, page) = <<>>
    /\ repos' = <<>>
    /\ request' = Request(200)
    /\ retries' = 0
    /\ NextLanguage
    /\ UNCHANGED <<num_repos, catalog, examples, pos,
                   earlyVars, aggVars, evalVars, diskVars>>

\* a rate-limited search answered by moving on to the next page
search_rate_limited_skip ==
    /\ pc = "search"
    /\ retries < MaxRetries
    /\ request' = Request(403)
    /\ retries' = retries + 1
    /\ page' = page + 1
    /\ pc' = "while"
    /\ UNCHANGED <<num_repos, catalog, lang, collected, examples, repos,
                   pos, earlyVars, aggVars, evalVars, diskVars>>

\* search_repos raises HTTPError with status 403: sleep 60 s, then continue
search_rate_limited ==
    /\ pc = "search"
    /\ retries < MaxRetries
    /\ request' = Request(403)
    /\ retries' = retries + 1
    /\ pc' = "while"
    /\ UNCHANGED <<num_repos, catalog, lang, page, collected, examples, repos,
                   pos, earlyVars, aggVars, evalVars, diskVars>>

\* the 403 handler has no attempt ceiling: a further rate-limited answer
\* after MaxRetries of them in a row (the count of the model stays at the cap)
search_rate_limited_again ==
    /\ pc = "search"
    /\ retries = MaxRetries
    /\ request' = Request(403)
    /\ pc' = "while"
    /\ UNCHANGED <<num_repos, catalog, lang, page, collected, examples, repos,
                   pos, retries, earlyVars, aggVars, evalVars, diskVars>>

\* search_repos raises HTTPError with another status: raised again
search_error ==
    /\ pc = "search"
    /\ \E status \in ErrorStatuses : request' = Request(status)
    /\ pc' = "raised"
    /\ UNCHANGED <<num_repos, catalog, lang, page, collected, examples, repos,
                   pos, retries, earlyVars, aggVars, evalVars, diskVars>>

\* one iteration of the for loop over repos; page += 1 after the last
collect_process_repo ==
    /\ pc = "process"
    /\ LET example == process_repo(repos[pos])
       IN  IF example.none
           THEN UNCHANGED <<examples, collected>>
           ELSE /\ examples' = Append(examples, [f \in DOMAIN example \ {"none"} |-> example[f]])
                /\ collected' = collected + 1
    /\ IF pos < Len(repos)
       THEN /\ pos' = pos + 1
            /\ pc' = "process"
            /\ page' = page
       ELSE /\ pos' = pos
            /\ page' = page + 1
            /\ pc' = "while"
    /\ UNCHANGED <<num_repos, catalog, lang, repos, request, retries,
                   earlyVars, aggVars, evalVars, diskVars>>

\* open(output_path, "w") and one line per example
save_dataset ==
    /\ pc = "save"
    /\ dataset_file' = [i \in 1..Len(examples) |-> Dumps(examples[i])]
    /\ pc' = "saved"
    /\ UNCHANGED <<collectVars, summary_file, details_file,
                   earlyVars, aggVars, evalVars>>

\* longest ranked list of the enumerated inputs
MaxResults == 2

\* the kinds the enumerated lists are made of
ListedKinds == {"ok", "notree", "rawonly"}

Catalogs ==
    UNION {[1..n -> ListedKinds] : n \in 0..MaxResults}
      \cup {<<k>> : k \in KindNames}
      \cup {<<"rawonly", "cleanonly", "nofetch">>}
      \cup {<<"notree", "ok", "ok", "ok">>}
      \cup {<<"ok", "notree", "noreadme", "ok", "readme404", "badreadme",
              "rawonly", "cleanonly", "nocode", "nofetch", "ok">>}

NumRepos == {0, 10, 25, 30}

\* an example persisted by an earlier run
OldExample ==
    [repo_name      |-> [language |-> "Python", rank |-> 0],
     file_tree      |-> <<"a", ".", "p", "y">>,
     code_snippets  |-> <<>>,
     readme_content |-> [len |-> 200],
     stars          |-> 10,
     language       |-> "Python"]

DatasetFiles == {<<>>, <<Dumps(OldExample)>>}

CollectIdle ==
    /\ num_repos = 0 /\ catalog = <<>>
    /\ lang = 1 /\ page = 1 /\ collected = 0
    /\ examples = <<>> /\ repos = <<>> /\ pos = 1
    /\ request = NoRequest /\ retries = 0

EvalIdle ==
    /\ num_samples = 0 /\ loaded = <<>> /\ test_examples = <<>>
    /\ struct_scores = <<>>

DiskIdle == dataset_file = <<>> /\ summary_file = <<>> /\ details_file = <<>>

-----------------------------------------------------------------------------
(* Evaluation run: scripts/evaluate.py.                                    *)

\* a line json.loads raises on: cut short, or blank
BadLines == {[parses |-> FALSE, text |-> "{"], [parses |-> FALSE, text |-> ""]}

\* the records of the dataset file evaluate is run on
EvalExample(rank, readme_content) ==
    [repo_name      |-> [language |-> "Python", rank |-> rank],
     file_tree      |-> <<"a", ".", "p", "y">>,
     code_snippets  |-> <<>>,
     readme_content |-> readme_content,
     stars          |-> 10,
     language       |-> "Python"]

GoodLines ==
    {Dumps(EvalExample(1, ScenarioText)),
     Dumps(EvalExample(2, <<"I","n","s","t","a","l","l"," ","i","t">>))}

\* longest dataset file of the enumerated inputs
MaxLines == 3

\* a dataset file long enough for a test set of two records
LongFile ==
    [i \in 1..11 |-> Dumps(EvalExample(i, <<"I","n","s","t","a","l","l"," ","i","t">>))]

EvalFiles ==
    UNION {[1..n -> GoodLines \cup BadLines] : n \in 0..MaxLines} \cup {LongFile}

\* the texts generate returns
GeneratedTexts == {<<>>, <<"#","#"," ","U","s","a","g","e">>}

\* an artifact written by an earlier run
OldArtifact == [label |-> "finetuned", num_samples |-> 100]

\* a loader that passes over the lines it cannot parse
evaluate_load_lenient ==
    /\ pc = "load"
    /\ LET good == SelectSeq(dataset_file, LAMBDA line : line.parses)
       IN  loaded' = [i \in 1..Len(good) |-> good[i].value]
    /\ pc' = "split"
    /\ UNCHANGED <<num_samples, test_examples, struct_scores, diskVars,
                   earlyVars, aggVars, collectVars>>

\* examples.append(json.loads(line.strip())) for each line of the file; the
\* JSONDecodeError of a line that does not parse is not caught
evaluate_load ==
    /\ pc = "load"
    /\ IF \E i \in 1..Len(dataset_file) : ~dataset_file[i].parses
       THEN /\ pc' = "raised"
            /\ UNCHANGED loaded
       ELSE /\ loaded' = [i \in 1..Len(dataset_file) |-> dataset_file[i].value]
            /\ pc' = "split"
    /\ UNCHANGED <<num_samples, test_examples, struct_scores, diskVars,
                   earlyVars, aggVars, collectVars>>

\* a split index rounded to the nearest record
evaluate_split_rounded ==
    /\ pc = "split"
    /\ LET split_idx == (Len(loaded) * 9 + 5) \div 10
           tail      == SubSeq(loaded, split_idx + 1, Len(loaded))
       IN  test_examples' = IF Len(tail) > num_samples
                            THEN SubSeq(tail, 1, num_samples)
                            ELSE tail
    /\ pc' = "score"
    /\ UNCHANGED <<num_samples, loaded, struct_scores, diskVars,
                   earlyVars, aggVars, collectVars>>

\* split_idx = int(len(examples) * 0.9) and the cut to num_samples
evaluate_split ==
    /\ pc = "split"
    /\ LET split_idx == (Len(loaded) * 9) \div 10
           tail      == SubSeq(loaded, split_idx + 1, Len(loaded))
       IN  test_examples' = IF Len(tail) > num_samples
                            THEN SubSeq(tail, 1, num_samples)
                            ELSE tail
    /\ pc' = "score"
    /\ UNCHANGED <<num_samples, loaded, struct_scores, diskVars,
                   earlyVars, aggVars, collectVars>>

\* one iteration of the scoring loop, on the text generate returns
evaluate_example ==
    /\ pc = "score"
    /\ Len(struct_scores) < Len(test_examples)
    /\ \E generated \in GeneratedTexts :
          struct_scores' = Append(struct_scores, structural_score(generated))
    /\ pc' = "score"
    /\ UNCHANGED <<num_samples, loaded, test_examples, diskVars,
                   earlyVars, aggVars, collectVars>>

\* the averages over no example: sum(v) / len(v) raises ZeroDivisionError
evaluate_empty ==
    /\ pc = "score"
    /\ test_examples = <<>>
    /\ pc' = "raised"
    /\ UNCHANGED <<evalVars, diskVars, earlyVars, aggVars, collectVars>>

\* the aggregates and the two artifacts
evaluate_save ==
    /\ pc = "score"
    /\ test_examples # <<>>
    /\ Len(struct_scores) = Len(test_examples)
    /\ LET ref_struct == [i \in 1..Len(test_examples) |->
                             structural_score(test_examples[i].readme_content)]
       IN  summary_file' =
               [label                |-> "finetuned",
                num_samples          |-> Len(test_examples),
                structural           |-> compute_structural_aggregate(struct_scores),
                reference_structural |-> compute_structural_aggregate(ref_struct)]
    /\ details_file' = [i \in 1..Len(test_examples) |->
                           [repo_name  |-> test_examples[i].repo_name,
                            structural |-> struct_scores[i]]]
    /\ pc' = "done"
    /\ UNCHANGED <<evalVars, dataset_file, earlyVars, aggVars, collectVars>>

LaterIdle == AggIdle /\ CollectIdle /\ EvalIdle /\ DiskIdle

-----------------------------------------------------------------------------
(* Specifications.                                                         *)

ScanIdle ==
    /\ variant = "dataset"
    /\ file_tree = <<>> /\ key_files = <<>> /\ idx = 1
    /\ total_chars = 0 /\ snippets = <<>> /\ attempted = <<>>
    /\ results = [v \in Variants |-> <<>>]

GateIdle ==
    /\ readme = <<>> /\ shape = [len |-> 0, hashes |-> 0, words |-> 0]
    /\ accepted = FALSE

ScoreIdle == text = <<>> /\ score = NoScore

\* the scans of one repository snapshot
Init ==
    /\ \/ /\ tree_status = 200
          /\ tree \in Trees
          /\ files \in FileSystems(tree)
       \/ /\ tree_status \in FailureStatuses
          /\ tree = TreeBasic
          /\ files \in FileSystems(tree)
    /\ pc = "idle"
    /\ ScanIdle /\ GateIdle /\ ScoreIdle /\ LaterIdle

Next ==
    \/ process_repo_start
    \/ scan_github_repo_start
    \/ scan_local_repo_start
    \/ process_repo_skip
    \/ scan_github_repo_raise
    \/ build_code_snippets_step
    \/ scan_github_repo_step
    \/ scan_local_repo_step
    \/ scan_return

Spec == Init /\ [][Next]_vars

\* the quality gate on one README
InitReadme ==
    /\ shape \in ReadmeShapes
    /\ readme = ReadmeText(shape.len, shape.hashes, shape.words)
    /\ accepted = FALSE
    /\ pc = "readme"
    /\ tree = <<>> /\ files = <<>> /\ tree_status = 200
    /\ ScanIdle /\ ScoreIdle /\ LaterIdle

NextReadme == quality_gate

SpecReadme == InitReadme /\ [][NextReadme]_vars

\* the structural scorer on one text
InitScore ==
    /\ text \in Texts
    /\ score = NoScore
    /\ pc = "text"
    /\ tree = <<>> /\ files = <<>> /\ tree_status = 200
    /\ ScanIdle /\ GateIdle /\ LaterIdle

NextScore == score_text

SpecScore == InitScore /\ [][NextScore]_vars

\* the aggregation of one batch of structural scores
InitAggregate ==
    /\ scores \in Batches
    /\ aggregate = NoAggregate
    /\ pc = "batch"
    /\ tree = <<>> /\ files = <<>> /\ tree_status = 200
    /\ ScanIdle /\ GateIdle /\ ScoreIdle
    /\ CollectIdle /\ EvalIdle /\ DiskIdle

NextAggregate ==
    \/ aggregate_scores
    \/ aggregate_empty

SpecAggregate == InitAggregate /\ [][NextAggregate]_vars

\* one run of collect_dataset
InitCollect ==
    /\ num_repos \in NumRepos
    /\ catalog \in Catalogs
    /\ dataset_file \in DatasetFiles
    /\ lang = 1 /\ page = 1 /\ collected = 0
    /\ examples = <<>> /\ repos = <<>> /\ pos = 1
    /\ request = NoRequest /\ retries = 0
    /\ pc = "while"
    /\ summary_file = <<>> /\ details_file = <<>>
    /\ tree = <<>> /\ files = <<>> /\ tree_status = 200
    /\ ScanIdle /\ GateIdle /\ ScoreIdle /\ AggIdle /\ EvalIdle

NextCollect ==
    \/ collect_while
    \/ collect_language_done
    \/ search_repos_page
    \/ search_repos_empty
    \/ search_rate_limited
    \/ search_error
    \/ collect_process_repo
    \/ save_dataset

SpecCollect == InitCollect /\ [][NextCollect]_vars

\* a search answered with something other than the rate limit
search_answered == search_repos_page \/ search_repos_empty \/ search_error

\* one run of collect_dataset with any number of rate-limited answers
NextCollectFair ==
    \/ collect_while
    \/ collect_language_done
    \/ search_repos_page
    \/ search_repos_empty
    \/ search_rate_limited
    \/ search_rate_limited_again
    \/ search_error
    \/ collect_process_repo
    \/ save_dataset

\* the interpreter keeps executing the steps of collect_dataset that wait for
\* nothing
StepFair == WF_vars(collect_while \/ collect_language_done \/ save_dataset)

\* WF_vars(collect_process_repo), written out: the loop body is enabled
\* exactly when pc = "process"
ProcessFair == []<>(pc # "process") \/ []<><<collect_process_repo>>_vars

\* every search is answered
search_any_answer == search_answered \/ search_rate_limited \/ search_rate_limited_again

\* a search sent again and again is eventually answered with something other
\* than the rate limit
FairCollect == StepFair /\ ProcessFair /\ SF_vars(search_answered)

SpecCollectFair == InitCollect /\ [][NextCollectFair]_vars /\ FairCollect

\* every search is answered, and the answer may be 403 every time
SpecCollectUnfair ==
    InitCollect /\ [][NextCollectFair]_vars /\ StepFair /\ ProcessFair
        /\ WF_vars(search_any_answer)

\* one run of evaluate
InitEvaluate ==
    /\ dataset_file \in EvalFiles
    /\ num_samples \in 0..2
    /\ \/ summary_file = <<>> /\ details_file = <<>>
       \/ summary_file = OldArtifact /\ details_file = <<OldArtifact>>
    /\ loaded = <<>> /\ test_examples = <<>> /\ struct_scores = <<>>
    /\ pc = "load"
    /\ tree = <<>> /\ files = <<>> /\ tree_status = 200
    /\ ScanIdle /\ GateIdle /\ ScoreIdle /\ AggIdle /\ CollectIdle

NextEvaluate ==
    \/ evaluate_load
    \/ evaluate_split
    \/ evaluate_example
    \/ evaluate_empty
    \/ evaluate_save

SpecEvaluate == InitEvaluate /\ [][NextEvaluate]_vars

-----------------------------------------------------------------------------
(* Properties of the scans.                                                *)

NoDuplicates(s) == \A i, j \in 1..Len(s) : i # j => s[i] # s[j]

\* characters of the admitted snippets' contents
SnippetChars(ss) ==
    LET F[i \in 0..Len(ss)] == IF i = 0 THEN 0 ELSE F[i - 1] + ss[i].len
    IN  F[Len(ss)]

\* sum of the full content lengths of the files of a selection
FullSize(sel) ==
    LET F[i \in 0..Len(sel)] == IF i = 0 THEN 0 ELSE F[i - 1] + files[sel[i]].len
    IN  F[Len(sel)]

\* sum, over the files of a selection that can be read, of the content length
\* cut to 1500
CappedSize(sel) ==
    LET F[i \in 0..Len(sel)] ==
            IF i = 0 THEN 0
            ELSE F[i - 1] + (IF files[sel[i]].status # 200 THEN 0
                             ELSE IF files[sel[i]].len < 1500 THEN files[sel[i]].len
                             ELSE 1500)
    IN  F[Len(sel)]

\* C1: the selection of every scan (select_key_files, scan_github_repo,
\* scan_local_repo) holds at most 10 paths and no path twice, whatever the
\* tree, a tree that lists a path in several entries included.
C1_SelectionCapNoDuplicates ==
    Len(key_files) <= 10 /\ NoDuplicates(key_files)

\* C2: in every state of the snippet loop and at its end, the contents of the
\* admitted snippets, and the running total that counts them, hold at most
\* 6000 + 1500 = 7500 characters.
C2_BudgetBound ==
    /\ total_chars <= 6000 + 1500
    /\ SnippetChars(snippets) <= 6000 + 1500

\* C2 happens: a loop that ran over the budget of 6000 after a failed fetch.
C2_Witness ==
    /\ pc = "join"
    /\ SnippetChars(snippets) > 6000
    /\ \E i \in 1..Len(attempted) : files[attempted[i]].status # 200

\* C3 as stated: when the full content lengths of the selected files sum to
\* more than 6000, the snippets hold at least 6000 characters.
C3_FullSizeFillsBudget ==
    (pc = "join" /\ FullSize(key_files) > 6000)
        => SnippetChars(snippets) >= 6000

\* C3 amended: when the content lengths cut to 1500 of the selected files
\* that can be read sum to at least 6000, the snippets hold at least 6000
\* characters.
C3_CappedSizeFillsBudget ==
    (pc = "join" /\ CappedSize(key_files) >= 6000)
        => SnippetChars(snippets) >= 6000

\* C3 amended happens: readable files, one longer than 1500, that fill the
\* budget, with a selected file left unread.
C3_Witness ==
    /\ pc = "join"
    /\ CappedSize(key_files) >= 6000
    /\ \E i \in 1..Len(key_files) : files[key_files[i]].len > 1500
    /\ Len(attempted) < Len(key_files)
    /\ SnippetChars(snippets) >= 6000

\* C4: the loop reads or fetches selected paths in selection order, each at
\* most once, and the paths it attempts are the longest prefix of the
\* selection in which the running total before each path is below 6000.
C4_AttemptsArePrefix ==
    /\ NoDuplicates(attempted)
    /\ Len(attempted) <= Len(key_files)
    /\ attempted = SubSeq(key_files, 1, Len(attempted))
    /\ \A i \in 1..Len(attempted) : CappedSize(SubSeq(key_files, 1, i - 1)) < 6000
    /\ pc = "join" =>
          Len(attempted) = Cardinality({i \in 1..Len(key_files) :
                               CappedSize(SubSeq(key_files, 1, i - 1)) < 6000})

\* the order and prefix part of C4, by position in the selection
C4_PositionsArePrefix ==
    /\ Len(attempted) <= Len(key_files)
    /\ attempted = SubSeq(key_files, 1, Len(attempted))
    /\ \A i \in 1..Len(attempted) : CappedSize(SubSeq(key_files, 1, i - 1)) < 6000
    /\ pc = "join" =>
          Len(attempted) = Cardinality({i \in 1..Len(key_files) :
                               CappedSize(SubSeq(key_files, 1, i - 1)) < 6000})

\* C5: a selected path whose lower-cased basename is not an important file
\* has a code extension and at most 2 separators; important files are
\* selected at any depth.
C5_DepthRule ==
    \A i \in 1..Len(key_files) :
        lower(basename(key_files[i])) \notin IMPORTANT_FILES =>
            /\ lower(splitext(key_files[i])) \in CODE_EXTENSIONS
            /\ count(key_files[i], "/") <= 2

\* C5 happens: a selection with a code file at depth 2 and an important file
\* below depth 2.
C5_Witness ==
    /\ pc = "join"
    /\ \E i \in 1..Len(key_files) :
          /\ lower(basename(key_files[i])) \notin IMPORTANT_FILES
          /\ count(key_files[i], "/") = 2
    /\ \E i \in 1..Len(key_files) :
          /\ lower(basename(key_files[i])) \in IMPORTANT_FILES
          /\ count(key_files[i], "/") > 2

\* the paths the running scan keeps for its listing
Kept ==
    IF variant = "dataset" THEN Paths(Listed(tree))
    ELSE IF variant = "github" THEN Paths(github_listed(tree))
    ELSE walk(tree)

Occurrences(s, x) == Cardinality({i \in 1..Len(s) : s[i] = x})

\* the lines of the listing string
ListingLines == IF file_tree = <<>> THEN <<>> ELSE split(file_tree, "\n")

\* the kept entries are listed in ascending order, cut to the first 80 and
\* one marker line
ListingHolds(kept, lines) ==
    LET shown == IF Len(kept) > 80 THEN SubSeq(lines, 1, Len(lines) - 1) ELSE lines
    IN  /\ Len(kept) > 80 =>
              /\ Len(lines) = 81
              /\ lines[81] = TruncationMarker
        /\ Len(kept) <= 80 => Len(lines) = Len(kept)
        /\ \A i \in 1..Len(shown) : shown[i] # TruncationMarker
        /\ \A i \in 1..(Len(shown) - 1) : ~StrLess(shown[i + 1], shown[i])
        /\ \A i \in 1..Len(shown) : InSeq(shown[i], kept)
        /\ \A i \in 1..Len(kept) :
              /\ Occurrences(shown, kept[i]) <= Occurrences(kept, kept[i])
              /\ Occurrences(shown, kept[i]) < Occurrences(kept, kept[i]) =>
                    \A j \in 1..Len(shown) : ~StrLess(kept[i], shown[j])

\* C6: the listing holds the kept entries in ascending order: the first 80
\* and then one marker line when more than 80 are kept, all of them and no
\* marker line otherwise, whatever the snippet loop admitted.
C6_FileTreeListing ==
    pc = "join" => ListingHolds(Kept, ListingLines)

\* C6 happens: more than 80 kept entries, a listing that ends in the marker,
\* and a snippet admitted.
C6_Witness ==
    /\ pc = "join"
    /\ Len(Kept) > 80
    /\ ListingLines[Len(ListingLines)] = TruncationMarker
    /\ Len(snippets) >= 1

C8_ImplementationsAgree ==
    \A v, w \in Variants :
        (results[v] # <<>> /\ results[w] # <<>>) =>
            /\ results[v][1].file_tree = results[w][1].file_tree
            /\ results[v][1].key_files = results[w][1].key_files
            /\ results[v][1].code_snippets = results[w][1].code_snippets

-----------------------------------------------------------------------------
(* Properties of the quality gate and of the structural scorer.            *)

\* C9: the gate accepts a README exactly when its length is in 200..4000, it
\* has at least 2 '#' and at least 50 words; so length 199 and length 4001
\* are rejected, and length 200 with 2 '#' and 50 words is accepted.
C9_QualityGate ==
    pc = "gated" =>
        /\ Len(readme) = shape.len
        /\ accepted <=> (/\ Len(readme) >= 200
                         /\ Len(readme) <= 4000
                         /\ shape.hashes >= 2
                         /\ shape.words >= 50)
        /\ Len(readme) = 199 => ~accepted
        /\ Len(readme) = 4001 => ~accepted

\* C9 happens: a README of length 200 with 2 '#' and 50 words is accepted.
C9_Witness ==
    /\ pc = "gated"
    /\ Len(readme) = 200 /\ shape.hashes = 2 /\ shape.words = 50
    /\ accepted

\* C10: for the empty text the score has has_description false and every
\* count 0: headings, code blocks, bullet points, length and lines.
C10_EmptyTextScore ==
    (pc = "scored" /\ text = <<>>) =>
        /\ ~score.has_description
        /\ score.num_headings = 0
        /\ score.num_code_blocks = 0
        /\ score.num_bullet_points = 0
        /\ score.total_length = 0
        /\ score.total_lines = 0

-----------------------------------------------------------------------------
(* Properties of the structural scorer.                                    *)

\* the positions where a line of t starts (the last line may be empty)
LineStarts(t) == {1} \cup {i + 1 : i \in {j \in 1..Len(t) : t[j] = "\n"}}

\* the first character of the line starting at s that is not blank, "" if
\* the line is blank
LineLead(t, s) ==
    LET stop  == Min({i \in s..Len(t) : t[i] = "\n"} \cup {Len(t) + 1})
        solid == {i \in s..(stop - 1) : t[i] \notin {" ", "\t"}}
    IN  IF solid = {} THEN "" ELSE t[Min(solid)]

LinesLedBy(t, chars) ==
    Cardinality({s \in LineStarts(t) : LineLead(t, s) \in chars})

\* the fences of t that do not overlap: a run of n backticks holds n \div 3
FenceCount(t) ==
    LET tick(i)   == i >= 1 /\ i <= Len(t) /\ t[i] = Backtick
        starts    == {i \in 1..Len(t) : tick(i) /\ ~tick(i - 1)}
        runLen(i) == Min({j \in i..(Len(t) + 1) : ~tick(j)}) - i
    IN  Cardinality({p \in starts \X (1..Len(t)) : p[2] <= runLen(p[1]) \div 3})

\* C11: for every text the scorer's heading count is the number of lines
\* whose stripped form starts with '#', its code-block count is half the
\* number of non-overlapping triple-backtick fences, rounded down, and its
\* bullet count is the number of lines whose stripped form starts with '-',
\* '*' or the bullet character; the scenario text scores 1, 1 and 2 with no
\* install and no usage section.
C11_StructuralCounts ==
    pc = "scored" =>
        /\ score.num_headings = LinesLedBy(text, {"#"})
        /\ score.num_code_blocks = FenceCount(text) \div 2
        /\ score.num_bullet_points = LinesLedBy(text, {"-", "*", Bullet})
        /\ text = ScenarioText =>
              /\ score.num_headings = 1
              /\ score.num_code_blocks = 1
              /\ score.num_bullet_points = 2
              /\ ~score.has_install_section
              /\ ~score.has_usage_section

\* C11 happens: the scenario text has been scored
C11_Witness ==
    /\ pc = "scored"
    /\ text = ScenarioText
    /\ score.num_headings = 1 /\ score.num_code_blocks = 1
    /\ score.num_bullet_points = 2

-----------------------------------------------------------------------------
(* Properties of the aggregation.                                          *)

\* the number of scores of the batch whose boolean metric is True
TrueCount(batch, metric) ==
    Cardinality({i \in 1..Len(batch) : batch[i][metric]})

\* the total of a numeric metric over the batch
Total(batch, metric) ==
    Cardinality({p \in (1..Len(batch)) \X (1..101) : p[2] <= batch[p[1]][metric]})

\* q = a / n
IsQuotient(q, a, n) == q.den > 0 /\ q.num * n = a * q.den

\* C12: for a batch of N >= 1 scores every boolean metric aggregates to
\* 100 * (number of True) / N, a value between 0 and 100, and every numeric
\* metric to the arithmetic mean of its N values; has_install_section
\* [True, False] gives pct_has_install = 50.
C12_Aggregate ==
    pc = "aggregated" =>
        LET N == Len(scores)
            Pct(q, metric) ==
                /\ IsQuotient(q, 100 * TrueCount(scores, metric), N)
                /\ 0 <= q.num /\ q.num <= 100 * q.den
            Avg(q, metric) == IsQuotient(q, Total(scores, metric), N)
        IN  /\ N >= 1
            /\ Pct(aggregate.pct_has_install, "has_install_section")
            /\ Pct(aggregate.pct_has_usage, "has_usage_section")
            /\ Pct(aggregate.pct_has_description, "has_description")
            /\ Avg(aggregate.avg_headings, "num_headings")
            /\ Avg(aggregate.avg_code_blocks, "num_code_blocks")
            /\ Avg(aggregate.avg_bullet_points, "num_bullet_points")
            /\ Avg(aggregate.avg_length, "total_length")
            /\ Avg(aggregate.avg_lines, "total_lines")
            /\ (N = 2 /\ scores[1].has_install_section
                      /\ ~scores[2].has_install_section)
                 => IsQuotient(aggregate.pct_has_install, 50, 1)

\* C12 happens: a batch with has_install_section [True, False] aggregated
C12_Witness ==
    /\ pc = "aggregated"
    /\ Len(scores) = 2
    /\ scores[1].has_install_section /\ ~scores[2].has_install_section
    /\ IsQuotient(aggregate.pct_has_install, 50, 1)
    /\ aggregate.avg_length.num > 0

-----------------------------------------------------------------------------
(* Properties of the remote fetches.                                       *)

\* C13: at every call site that fetches a remote repository tree, a
\* non-success status of the tree request yields no snapshot and the caller
\* skips the repository; no error is raised that aborts the run.
C13_TreeFailureIsSkipped ==
    tree_status \in FailureStatuses /\ pc \in {"skipped", "raised"}
        => pc = "skipped"

\* the snippet loop is about to read or fetch a path, and that fails
FailingAttempt ==
    /\ pc = "loop"
    /\ idx <= Len(key_files)
    /\ ~BudgetSpent(total_chars)
    /\ files[key_files[idx]].status # 200

\* C14: when reading or fetching a selected file fails, the snippet loop
\* emits no block for it, leaves the running total unchanged, raises
\* nothing, and goes on to the next selected path under the same budget
\* check.
C14_FailedReadIsSkipped ==
    [][FailingAttempt =>
          /\ snippets' = snippets
          /\ total_chars' = total_chars
          /\ attempted' = Append(attempted, key_files[idx])
          /\ idx' = idx + 1
          /\ pc' = "loop"]_vars

\* C14 happens: a path was admitted after an earlier attempt had failed
C14_Witness ==
    /\ pc \in {"loop", "join"}
    /\ \E i \in 1..Len(attempted) :
          /\ files[attempted[i]].status # 200
          /\ \A k \in 1..Len(snippets) : snippets[k].path # attempted[i]
          /\ \E j \in (i + 1)..Len(attempted), k \in 1..Len(snippets) :
                snippets[k].path = attempted[j]

-----------------------------------------------------------------------------
(* Properties of the dataset collection.                                   *)

\* a is a prefix of b
IsPrefix(a, b) == Len(a) <= Len(b) /\ SubSeq(b, 1, Len(a)) = a

\* C15: the persisted dataset file is append-only: a run of collect_dataset
\* that finds readme_dataset.jsonl in its output directory leaves every
\* record persisted before present and unchanged, and adds its new records
\* after them.
C15_DatasetAppendOnly ==
    [][IsPrefix(dataset_file, dataset_file')]_vars

\* the kinds of repository that pass each test of process_repo, the README
\* gate on the normalized text, with the length of that text
QualifyingKinds ==
    {q \in {<<k, Len(clean_readme(Kinds[k].readme))>> : k \in KindNames} :
        LET remote == Kinds[q[1]]
            found  == FindReadme(remote.tree)
        IN  /\ remote.tree_status = 200
            /\ ~found.none
            /\ remote.files[found.path].status = 200
            /\ is_quality_readme(clean_readme(remote.readme))
            /\ \E p \in Range(select_key_files(remote.tree)) :
                  remote.files[p].status = 200}

\* every record of the collected examples comes from such a repository
RecordsQualify(qualifying) ==
    \A i \in 1..Len(examples) :
        /\ <<catalog[examples[i].repo_name.rank], examples[i].readme_content.len>>
              \in qualifying
        /\ examples[i].code_snippets # <<>>

\* C16: every record of the collected examples, and so every persisted
\* record, comes from a repository whose tree fetch succeeded, whose README
\* was found and fetched, whose README passes is_quality_readme after
\* clean_readme, and whose code_snippets is not empty; a repository that
\* fails one of these yields no record and no error and does not increase
\* the collected count.
C16_OnlyQualifyingRecords ==
    /\ [](RecordsQualify(QualifyingKinds))
    /\ [](pc = "saved" => dataset_file = [i \in 1..Len(examples) |-> Dumps(examples[i])])
    /\ [][(pc = "process" /\ \A q \in QualifyingKinds : q[1] # repos[pos].kind) =>
              /\ examples' = examples
              /\ collected' = collected
              /\ pc' \in {"process", "while"}]_vars

\* C16 happens: of one page, the README that passes the gate only once
\* normalized gave a record, and the README that passes it only as fetched
\* and the repository without a fetched snippet gave none
C16_Witness ==
    /\ pc = "while" /\ page = 2 /\ lang = 1
    /\ catalog = <<"rawonly", "cleanonly", "nofetch">>
    /\ request.per_page = 3
    /\ Len(examples) = 1 /\ examples[1].repo_name.rank = 2
    /\ ~is_quality_readme(Kinds["cleanonly"].readme)
    /\ is_quality_readme(Kinds["rawonly"].readme)

\* the search request that would be sent now is the latest one
SameRequest ==
    /\ languages[lang] = request.language
    /\ page = request.page
    /\ per_page = request.per_page

\* C20: a search answered with the rate-limit status 403 is followed, after
\* the sleep, by a retry of the same request: language, page and per_page of
\* the next search equal those of the failed one, and page, collected and
\* the examples list do not change across the retry; a search answered with
\* another error status is not retried and ends collect_dataset with the
\* error.
C20_RateLimitRetry ==
    /\ [](request.status = 403 => pc \in {"while", "search"} /\ SameRequest)
    /\ [][request.status = 403 /\ pc = "while" =>
              pc' = "search" /\ UNCHANGED <<lang, page, collected, examples>>]_vars
    /\ [][request.status = 403 /\ pc = "search" =>
              /\ request'.language = request.language
              /\ request'.page = request.page
              /\ request'.per_page = request.per_page]_vars
    /\ [][request'.status = 403 /\ pc = "search" =>
              pc' = "while" /\ UNCHANGED <<lang, page, collected, examples>>]_vars
    /\ [](request.status \in ErrorStatuses => pc = "raised")
    /\ [][pc # "raised"]_vars

\* C20 happens: in the middle of a run a search was answered with 403, sent
\* again as it was and answered with 403 again
C20_Witness ==
    /\ request.status = 403 /\ retries = 2
    /\ pc = "search"
    /\ page = 2 /\ collected = 1 /\ Len(examples) >= 1
    /\ SameRequest

\* collect_dataset has ended: the dataset is written, or an error left it
CollectEnded == pc \in {"saved", "raised"}

\* C21: when a search that is sent again and again is eventually answered
\* with something other than the rate limit, and the ranked result list is
\* finite, collect_dataset ends, and it ends in the write of the dataset
\* unless a search error ends it first; the languages are left one by one
\* and the write comes after the loop of the last, so the loop of every
\* language exits; the handler of the rate limit itself has no ceiling, a
\* search can be answered with 403 whatever the number of 403 answers before.
C21_CollectionTerminates ==
    /\ <>CollectEnded
    /\ ([](pc # "raised") => <>(pc = "saved"))
    /\ [](pc \in {"save", "saved"} => lang = Len(languages))
    /\ [][lang' \in {lang, lang + 1}]_vars
    /\ [](pc = "search" => ENABLED (search_rate_limited \/ search_rate_limited_again))

\* the termination part of C21 alone, without the assumption on the answers
C21_TerminatesUnderAnyAnswers == <>CollectEnded

\* C21 happens: a search of a later page has been answered with 403 as often
\* as the model counts, and is about to be sent again
C21_Witness ==
    /\ request.status = 403 /\ retries = MaxRetries
    /\ pc = "while" /\ page = 2 /\ collected < repos_per_language

\* C23: a search answering at most per_page items, the count of one language
\* never exceeds repos_per_language = floor(num_repos / 10), so the examples
\* collected over the languages never exceed num_repos.
C23_CollectedBound ==
    /\ repos_per_language = num_repos \div 10
    /\ request.status = 200 => Len(repos) <= request.per_page
    /\ collected <= repos_per_language
    /\ Len(examples) <= (lang - 1) * repos_per_language + collected
    /\ Len(examples) <= num_repos
    /\ pc = "saved" => Len(dataset_file) <= num_repos

\* C23 happens: every language reached its share, over several pages, and
\* the dataset written holds num_repos examples
C23_Witness ==
    /\ pc = "saved"
    /\ num_repos = 30 /\ Len(examples) = 30 /\ Len(dataset_file) = 30
    /\ collected = repos_per_language
    /\ page > 2

\* the result positions of the page just answered
Window == {repos[k].full_name.rank : k \in 1..Len(repos)}

\* C24: within one language, against the unchanging ranked list, the windows
\* of successive searches are disjoint and contiguous: the first page starts
\* at position 1, every later page starts right after the last position of
\* the page before it, and the loop is left on an empty page only when the
\* list is used up, so no position is processed twice and none is skipped.
C24_WindowsContiguous ==
    /\ [][pc = "search" /\ pc' = "process" =>
              /\ \A k \in 1..Len(repos') :
                     repos'[k].full_name.rank = repos'[1].full_name.rank + k - 1
              /\ repos'[1].full_name.rank =
                     IF page = 1 THEN 1 ELSE repos[Len(repos)].full_name.rank + 1]_vars
    /\ [][pc = "search" /\ request'.status = 200 /\ repos' = <<>> =>
              IF page = 1 THEN catalog = <<>>
              ELSE repos[Len(repos)].full_name.rank = Len(catalog)]_vars

\* the part of C24 that holds: no position is skipped, a page never starts
\* beyond the position after the last one of the page before it
C24_NoPositionSkipped ==
    [][pc = "search" /\ pc' = "process" =>
          repos'[1].full_name.rank <=
              IF page = 1 THEN 1 ELSE repos[Len(repos)].full_name.rank + 1]_vars

-----------------------------------------------------------------------------
(* Properties of the evaluation run.                                       *)

UnparsableLine == \E i \in 1..Len(dataset_file) : ~dataset_file[i].parses

\* C17: when a line of the persisted dataset does not parse, evaluate hands
\* the error to its caller, neither skipping nor repairing the line, and
\* does so before an artifact is written: eval_<label>.json and
\* eval_<label>_details.json are neither created nor changed.
C17_ParseErrorPropagates ==
    /\ [](UnparsableLine => pc \in {"load", "raised"} /\ loaded = <<>>)
    /\ [][UnparsableLine =>
              /\ pc' = "raised"
              /\ UNCHANGED <<summary_file, details_file, dataset_file>>]_vars

\* C17 happens: the run was ended by a line that does not parse, after one
\* that does, with the artifacts of an earlier run on disk
C17_Witness ==
    /\ pc = "raised"
    /\ Len(dataset_file) >= 2
    /\ dataset_file[1].parses /\ ~dataset_file[2].parses
    /\ summary_file = OldArtifact /\ details_file = <<OldArtifact>>

-----------------------------------------------------------------------------
(* Properties of the selection in the remote scans.                        *)

\* the positions of the tree whose entry is a file with an important name
ImportantAt(t) ==
    SelectSeq(Indices(t), LAMBDA i :
        t[i].type = "blob" /\ lower(basename(t[i].path)) \in IMPORTANT_FILES)

\* the positions of the tree whose entry is a code file at depth <= 2
CodeAt(t) ==
    SelectSeq(Indices(t), LAMBDA i :
        /\ t[i].type = "blob"
        /\ lower(splitext(t[i].path)) \in CODE_EXTENSIONS
        /\ Cardinality({k \in 1..Len(t[i].path) : t[i].path[k] = "/"}) <= 2)

\* important matches in tree order, then the code files in tree order that
\* are not present yet, cut to the first ten
TwoPassSelection(t) ==
    LET both  == ImportantAt(t) \o CodeAt(t)
        paths == [k \in 1..Len(both) |-> t[both[k]].path]
        first == SelectSeq(Indices(paths), LAMBDA k :
                     \A j \in 1..(k - 1) : paths[j] # paths[k])
    IN  [k \in 1..Min({10, Len(first)}) |-> paths[first[k]]]

SelectionIsTwoPass(expected) ==
    pc \in {"loop", "join"} /\ variant \in {"dataset", "github"}
        => key_files = expected

\* C18: the selection is the first 10 elements of all important-file matches
\* in tree order followed by all qualifying code files in tree order that
\* are not already present: important-pass paths come before code-only
\* paths, a file matching both passes keeps its important-pass position, and
\* with 10 or more important files no code-only file is selected.
C18_SelectionOrder == SelectionIsTwoPass(TwoPassSelection(tree))

\* the order part of C18 on the trees that list no path twice
C18_OrderWithoutRepeats ==
    NoDuplicates(Paths(tree)) => SelectionIsTwoPass(TwoPassSelection(tree))

\* the entry is one the source adapter of the running remote scan excludes
Excluded(path) ==
    \/ \E part \in Range(split(path, "/")) : part # <<>> /\ part[1] = "."
    \/ Contains(path, <<"n","o","d","e","_","m","o","d","u","l","e","s">>)
    \/ Contains(path, <<"_","_","p","y","c","a","c","h","e","_","_">>)
    \/ variant = "dataset" /\ Contains(path, <<".","e","g","g","-","i","n","f","o">>)

\* C19: in the remote scans an entry the source adapter excludes (a path
\* segment starting with '.', or node_modules, __pycache__, or on the dataset
\* path .egg-info in the path) reaches no output: it is neither in the
\* file-tree listing nor in the key-file selection, and its content is never
\* fetched.
C19_ExcludedNeverDownstream ==
    pc \in {"loop", "join"} /\ variant \in {"dataset", "github"} =>
        /\ \A i \in 1..Len(key_files) : ~Excluded(key_files[i])
        /\ \A i \in 1..Len(attempted) : ~Excluded(attempted[i])
        /\ \A line \in Range(ListingLines) \ {TruncationMarker} : ~Excluded(line)

\* the listing part of C19
C19_ExcludedNeverListed ==
    pc \in {"loop", "join"} /\ variant \in {"dataset", "github"} =>
        \A line \in Range(ListingLines) \ {TruncationMarker} : ~Excluded(line)

\* the test set evaluate is to cut: the last tenth of the records, at most
\* num_samples of them
TestSet ==
    LET n    == Len(loaded)
        from == (9 * n) \div 10
        size == Min({n - from, num_samples})
    IN  [k \in 1..size |-> loaded[from + k]]

\* C22: for every dataset of n >= 1 records and every num_samples >= 1 the
\* test set, the records from floor(0.9 * n) on cut to the first num_samples,
\* is not empty and has at most num_samples elements, so evaluate never
\* averages over an empty batch: it does not end in the division by zero,
\* and the aggregates it writes are over as many scores as the test set has.
C22_TestSetNonEmpty ==
    Len(loaded) >= 1 /\ num_samples >= 1 =>
        /\ pc \in {"score", "done"} =>
               /\ test_examples = TestSet
               /\ test_examples # <<>>
               /\ Len(test_examples) <= num_samples
        /\ pc # "raised"
        /\ pc = "done" =>
               /\ Len(struct_scores) = Len(test_examples)
               /\ summary_file.num_samples >= 1
               /\ summary_file.structural = compute_structural_aggregate(struct_scores)

\* C22 happens: a test set of two records is cut to num_samples = 1 and the
\* aggregates over the one score are written
C22_Witness ==
    /\ Len(loaded) = 11 /\ num_samples = 1
    /\ pc = "done"
    /\ Len(test_examples) = 1 /\ test_examples[1].repo_name.rank = 10
    /\ summary_file.num_samples = 1
====
